---- MODULE Spec2Model ----
(***************************************************************************)
(* Translation of an ontology graph into KM frame expressions and the      *)
(* dependency-ordered publishing of those expressions.                     *)
(*                                                                         *)
(* Text is modelled as a sequence of atoms.  An atom is a string that is   *)
(* either a run of word characters (letters, digits, '_' and '-') or one   *)
(* of the non-word characters listed in NonWord.  Str(t) is the Python     *)
(* string the atoms spell.  URIs are texts whose path separator "/" is an  *)
(* atom of its own; the scheme and host of a URI are kept as one opaque    *)
(* leading atom.                                                           *)
(***************************************************************************)
EXTENDS Naturals, Integers, Sequences, FiniteSets, TLC

(***************************************************************************)
(* Text primitives                                                         *)
(***************************************************************************)
Q == "\""
BS == "\\"
SP == " "
NonWord == {"(", ")", SP, Q, BS, "#", "/", ":", ".", "'"}

IsWordAtom(a) == a \notin NonWord

RECURSIVE Str(_)
Str(t) == IF t = <<>> THEN "" ELSE Head(t) \o Str(Tail(t))

\* ' '.join(values)
RECURSIVE Join(_)
Join(values) ==
    IF values = <<>> THEN <<>>
    ELSE IF Len(values) = 1 THEN values[1]
    ELSE values[1] \o <<SP>> \o Join(Tail(values))

\* index of the last "/" of a text, 0 when there is none
RECURSIVE LastSlash(_, _)
LastSlash(t, i) ==
    IF i = 0 THEN 0
    ELSE IF t[i] = "/" THEN i
    ELSE LastSlash(t, i - 1)

\* str(uri).split('/')[-1]
rdf_to_krl_name(uri) == SubSeq(uri, LastSlash(uri, Len(uri)) + 1, Len(uri))

\* json.dumps(str(obj)): the text between double quotes, with every double
\* quote and every backslash of the content escaped by a backslash
RECURSIVE JsonEscape(_)
JsonEscape(t) ==
    IF t = <<>> THEN <<>>
    ELSE IF Head(t) \in {Q, BS} THEN <<BS, Head(t)>> \o JsonEscape(Tail(t))
    ELSE <<Head(t)>> \o JsonEscape(Tail(t))

json_dumps(t) == <<Q>> \o JsonEscape(t) \o <<Q>>

\* the atoms that begin with an upper-case letter (label[0].isupper())
UpperInitial == {"Animal", "Dog", "Fido", "Big", "Thing", "Slot", "Class"}
StartsUpper(t) == t # <<>> /\ t[1] \in UpperInitial

\* order-preserving removal of repeated elements: list(dict.fromkeys(values))
RECURSIVE Dedup(_, _)
Dedup(s, seen) ==
    IF s = <<>> THEN <<>>
    ELSE IF Head(s) \in seen THEN Dedup(Tail(s), seen)
    ELSE <<Head(s)>> \o Dedup(Tail(s), seen \cup {Head(s)})

Range(s) == {s[i] : i \in DOMAIN s}

(***************************************************************************)
(* The triple store.  A graph is a sequence of triples in store order; the *)
(* object of a triple is a URI (lit = FALSE) or the text of a literal.     *)
(***************************************************************************)
W3 == "http://www.w3.org"
RDF_type == <<W3, "/", "1999", "/", "02", "/", "22-rdf-syntax-ns", "#", "type">>
RDFS_subClassOf == <<W3, "/", "2000", "/", "01", "/", "rdf-schema", "#", "subClassOf">>
RDFS_label == <<W3, "/", "2000", "/", "01", "/", "rdf-schema", "#", "label">>
RDFS_comment == <<W3, "/", "2000", "/", "01", "/", "rdf-schema", "#", "comment">>
RDFS_subPropertyOf == <<W3, "/", "2000", "/", "01", "/", "rdf-schema", "#", "subPropertyOf">>
RDFS_domain == <<W3, "/", "2000", "/", "01", "/", "rdf-schema", "#", "domain">>
RDFS_range == <<W3, "/", "2000", "/", "01", "/", "rdf-schema", "#", "range">>
OWL_Class == <<W3, "/", "2002", "/", "07", "/", "owl", "#", "Class">>
OWL_ObjectProperty == <<W3, "/", "2002", "/", "07", "/", "owl", "#", "ObjectProperty">>
OWL_sameAs == <<W3, "/", "2002", "/", "07", "/", "owl", "#", "sameAs">>
OWL_disjointWith == <<W3, "/", "2002", "/", "07", "/", "owl", "#", "disjointWith">>
OWL_inverseOf == <<W3, "/", "2002", "/", "07", "/", "owl", "#", "inverseOf">>
cyc_annot_label == <<"http://sw.cyc.com", "/", "CycAnnotations_v1", "#", "label">>
CYC_QuotedIsa == <<"http://sw.opencyc.org", "/", "2008", "/", "06", "/", "10", "/",
                   "concept", "/", "Mx4rBVVEokNxEdaAAACgydogAg">>

TYPE_PREDICATES == {RDF_type, CYC_QuotedIsa}

Triple(s, p, o) == [s |-> s, p |-> p, o |-> o, lit |-> FALSE]
LitTriple(s, p, text) == [s |-> s, p |-> p, o |-> text, lit |-> TRUE]

\* (s, p, o) in graph, o a URI
HasTriple(g, s, p, o) == \E i \in DOMAIN g : g[i] = Triple(s, p, o)

RECURSIVE SelectIdx(_, _, _)
\* the triples of g from index i on whose subject is s, in store order
SelectIdx(g, s, i) ==
    IF i > Len(g) THEN <<>>
    ELSE IF g[i].s = s THEN <<g[i]>> \o SelectIdx(g, s, i + 1)
    ELSE SelectIdx(g, s, i + 1)

\* graph.predicate_objects(s)
predicate_objects(g, s) == SelectIdx(g, s, 1)

\* graph.objects(s, p)
objects(g, s, p) == SelectSeq(predicate_objects(g, s), LAMBDA t : t.p = p)

\* graph.subjects(), one entry per triple, in store order
subjects(g) == [i \in DOMAIN g |-> g[i].s]

\* graph.predicates(), one entry per triple, in store order
predicates(g) == [i \in DOMAIN g |-> g[i].p]

\* graph.subjects(RDF.type, o): each subject once, in store order
subjects_of_type(g, o) ==
    Dedup(SelectSeq([i \in DOMAIN g |->
                        IF g[i] = Triple(g[i].s, RDF_type, o) THEN g[i].s ELSE <<>>],
                    LAMBDA u : u # <<>>), {})

(***************************************************************************)
(* Name tables                                                             *)
(***************************************************************************)
\* Python's None where a text is expected
PyNone == <<"\\None\\">>

\* how an f-string renders a value
Render(v) == IF v = PyNone THEN <<"None">> ELSE v

\* truthiness of an optional text
Truthy(v) == v # PyNone /\ v # <<>>

FirstOr(s, default) == IF s = <<>> THEN default ELSE Head(s)

\* the label and external id that extract_labels_and_ids finds for one subject
LabelOf(g, s) ==
    FirstOr([i \in DOMAIN SelectSeq(objects(g, s, RDFS_label), LAMBDA t : t.lit) |->
                SelectSeq(objects(g, s, RDFS_label), LAMBDA t : t.lit)[i].o], PyNone)

ExternalIdOf(g, s) ==
    FirstOr([i \in DOMAIN SelectSeq(objects(g, s, OWL_sameAs), LAMBDA t : ~t.lit) |->
                SelectSeq(objects(g, s, OWL_sameAs), LAMBDA t : ~t.lit)[i].o], PyNone)

\* extract_labels_and_ids(graph): the resources with a label or an external id
extract_labels_and_ids(g) ==
    [s \in {u \in Range(subjects(g)) : Truthy(LabelOf(g, u)) \/ Truthy(ExternalIdOf(g, u))} |->
        [label |-> LabelOf(g, s), external_id |-> ExternalIdOf(g, s)]]

\* the literal values of the annotation label of s, in store order
AnnotLabels(g, s) ==
    [i \in DOMAIN SelectSeq(objects(g, s, cyc_annot_label), LAMBDA t : t.lit) |->
        SelectSeq(objects(g, s, cyc_annot_label), LAMBDA t : t.lit)[i].o]

\* the name build_resource_names gives to subject s
ResourceNameOf(g, object_map, s) ==
    IF s \in DOMAIN object_map
    THEN object_map[s].label
    ELSE IF AnnotLabels(g, s) # <<>>
         THEN FirstOr(SelectSeq(AnnotLabels(g, s), StartsUpper), AnnotLabels(g, s)[1])
         ELSE rdf_to_krl_name(s)

\* build_resource_names: a dict, kept as its keys in insertion order and its map
build_resource_names(g, object_map) ==
    [order |-> Dedup(subjects(g), {}),
     map   |-> [s \in Range(subjects(g)) |-> ResourceNameOf(g, object_map, s)]]

\* STANDARD_PREDICATES: the entries keyed by a URI ...
STANDARD_PREDICATES ==
    [p \in {RDF_type, RDFS_subClassOf, RDFS_label, OWL_sameAs, OWL_disjointWith,
            RDFS_comment, RDFS_subPropertyOf} |->
        CASE p = RDF_type -> <<"instance-of">>
          [] p = RDFS_subClassOf -> <<"superclasses">>
          [] p = RDFS_label -> <<"prettyString">>
          [] p = OWL_sameAs -> <<"same-as">>
          [] p = OWL_disjointWith -> <<"mustnt-be-a">>
          [] p = RDFS_comment -> <<"comment">>
          [] p = RDFS_subPropertyOf -> <<"subPropertyOf">>]

\* ... and the entries keyed by a plain string, which no URI of a graph equals
STANDARD_PREDICATES_STR ==
    [k \in {"Mx4rvViAzpwpEbGdrcN5Y29ycA", "Mx4rBVVEokNxEdaAAACgydogAg",
            "Mx4rwLSVCpwpEbGdrcN5Y29ycA", "Mx4r8POVIYRHEdmd8gACs6hbCw"} |->
        CASE k = "Mx4rvViAzpwpEbGdrcN5Y29ycA" -> <<"datatype">>
          [] k = "Mx4rBVVEokNxEdaAAACgydogAg" -> <<"Quoted", SP, "Isa">>
          [] k = "Mx4rwLSVCpwpEbGdrcN5Y29ycA" -> <<"prettyString">>
          [] k = "Mx4r8POVIYRHEdmd8gACs6hbCw" -> <<"prettyString-Canonical">>]

StandardNames ==
    {Str(STANDARD_PREDICATES[p]) : p \in DOMAIN STANDARD_PREDICATES}
      \cup {Str(STANDARD_PREDICATES_STR[k]) : k \in DOMAIN STANDARD_PREDICATES_STR}

\* a build_predicate_names without its while loop: the base name as it is
FreshName_unsuffixed(base_name, name, i, used) == name

\* the first of base_name, base_name_1, base_name_2, ... that is not in used
RECURSIVE FreshName(_, _, _, _)
FreshName(base_name, name, i, used) ==
    IF Str(Render(name)) \in used
    THEN FreshName(base_name, Render(base_name) \o <<"_", ToString(i)>>, i + 1, used)
    ELSE name

\* the loop of build_predicate_names over graph.predicates()
RECURSIVE PredicateLoop(_, _, _, _)
PredicateLoop(preds, object_map, names, used_names) ==
    IF preds = <<>> THEN names
    ELSE LET pred == Head(preds) IN
         IF pred \in TYPE_PREDICATES
         THEN PredicateLoop(Tail(preds), object_map,
                            (pred :> <<"instance-of">>) @@ names, used_names)
         ELSE IF pred \notin DOMAIN names
         THEN LET base_name == IF pred \in DOMAIN object_map
                               THEN object_map[pred].label
                               ELSE rdf_to_krl_name(pred)
                  name == FreshName(base_name, base_name, 1, used_names)
              IN PredicateLoop(Tail(preds), object_map,
                               (pred :> name) @@ names,
                               used_names \cup {Str(Render(name))})
         ELSE PredicateLoop(Tail(preds), object_map, names, used_names)

build_predicate_names(g, object_map) ==
    PredicateLoop(predicates(g), object_map, STANDARD_PREDICATES, StandardNames)

\* self.resource_names.get(resource, rdf_to_krl_name(resource))
get_resource_name(resource_names, resource) ==
    IF resource \in DOMAIN resource_names.map
    THEN resource_names.map[resource]
    ELSE rdf_to_krl_name(resource)

\* self.predicate_names.get(predicate, rdf_to_krl_name(predicate))
get_slot_name(predicate_names, predicate) ==
    IF predicate \in DOMAIN predicate_names
    THEN predicate_names[predicate]
    ELSE rdf_to_krl_name(predicate)

\* the generator object: the graph with its two name tables
KMSyntaxService(g, object_map) ==
    [graph |-> g,
     object_map |-> object_map,
     resource_names |-> build_resource_names(g, object_map),
     predicate_names |-> build_predicate_names(g, object_map)]
(***************************************************************************)
(* Expression generation                                                   *)
(***************************************************************************)
\* the value token of one object: the resource name of a URI, the quoted
\* text of a literal
ValueOf(gen, t) ==
    IF t.lit THEN json_dumps(t.o) ELSE get_resource_name(gen.resource_names, t.o)

\* slots.setdefault(slot_name, []).append(value) over the triples of a subject:
\* the slots in first-seen order, each with its values in store order
RECURSIVE CollectSlots(_, _, _)
CollectSlots(gen, triples, slots) ==
    IF triples = <<>> THEN slots
    ELSE LET slot_name == get_slot_name(gen.predicate_names, Head(triples).p)
             value == ValueOf(gen, Head(triples))
             hit == {i \in DOMAIN slots : slots[i].slot = slot_name}
         IN IF hit = {}
            THEN CollectSlots(gen, Tail(triples),
                              Append(slots, [slot |-> slot_name, values |-> <<value>>]))
            ELSE CollectSlots(gen, Tail(triples),
                              [i \in DOMAIN slots |->
                                  IF i \in hit
                                  THEN [slots[i] EXCEPT !.values = Append(@, value)]
                                  ELSE slots[i]])

SlotsOf(gen, uri) == CollectSlots(gen, predicate_objects(gen.graph, uri), <<>>)

\* f" ({slot} ({' '.join(values)}))"
Clause(slot, values) ==
    <<SP, "(">> \o Render(slot) \o <<SP, "(">> \o Join(values) \o <<")", ")">>

\* the text a frame starts with: f"({name} has"
FrameHead(name) == <<"(">> \o Render(name) \o <<SP, "has">>

\* ' '.join(values) raises TypeError when a value is None
JoinRaises(values) == PyNone \in Range(values)

\* the slot name class_to_km prints: a slot spelled like a string key of
\* STANDARD_PREDICATES is replaced by that entry
ClassSlot(slot) ==
    IF Str(Render(slot)) \in DOMAIN STANDARD_PREDICATES_STR /\ slot # PyNone
    THEN STANDARD_PREDICATES_STR[Str(slot)]
    ELSE slot

\* the inner loop of class_to_km: one clause per value that is not "owl#Class"
RECURSIVE ClassClauses(_, _, _)
ClassClauses(slot, values, rest) ==
    IF rest = <<>> THEN <<>>
    ELSE IF Head(rest) # PyNone /\ Str(Head(rest)) = "owl#Class"
         THEN ClassClauses(slot, values, Tail(rest))
         ELSE Clause(ClassSlot(slot), values) \o ClassClauses(slot, values, Tail(rest))

RECURSIVE ClassBody(_)
ClassBody(slots) ==
    IF slots = <<>> THEN <<>>
    ELSE ClassClauses(Head(slots).slot, Head(slots).values, Head(slots).values)
           \o ClassBody(Tail(slots))

\* KMSyntaxService.class_to_km
class_to_km(gen, class_uri) ==
    FrameHead(get_resource_name(gen.resource_names, class_uri))
      \o ClassBody(SlotsOf(gen, class_uri)) \o <<")">>

\* an individual_to_km without dict.fromkeys: every value of a slot is printed
RECURSIVE IndividualBody_all_values(_)
IndividualBody_all_values(slots) ==
    IF slots = <<>> THEN <<>>
    ELSE Clause(Head(slots).slot, Head(slots).values)
           \o IndividualBody_all_values(Tail(slots))

RECURSIVE IndividualBody(_)
IndividualBody(slots) ==
    IF slots = <<>> THEN <<>>
    ELSE Clause(Head(slots).slot, Dedup(Head(slots).values, {}))
           \o IndividualBody(Tail(slots))

\* KMSyntaxService.individual_to_km
individual_to_km(gen, ind_uri) ==
    FrameHead(get_resource_name(gen.resource_names, ind_uri))
      \o IndividualBody(SlotsOf(gen, ind_uri)) \o <<")">>

\* [self.get_resource_name(o) for o in self.graph.objects(prop_uri, p)]
ObjectNames(gen, prop_uri, p) ==
    [i \in DOMAIN objects(gen.graph, prop_uri, p) |->
        LET t == objects(gen.graph, prop_uri, p)[i]
        IN IF t.lit THEN rdf_to_krl_name(t.o)
           ELSE get_resource_name(gen.resource_names, t.o)]

\* [json.dumps(str(label)) for label in self.graph.objects(prop_uri, RDFS.label)]
LabelValues(gen, prop_uri) ==
    [i \in DOMAIN objects(gen.graph, prop_uri, RDFS_label) |->
        json_dumps(objects(gen.graph, prop_uri, RDFS_label)[i].o)]

\* a property_to_km without its if tests: the clause of an empty list too
OptionalClause_always(slot, values) == Clause(slot, values)

OptionalClause(slot, values) ==
    IF values = <<>> THEN <<>> ELSE Clause(slot, values)

\* KMSyntaxService.property_to_km
property_to_km(gen, prop_uri) ==
    FrameHead(get_resource_name(gen.resource_names, prop_uri))
      \o <<SP, "(", "instance-of", SP, "(", "Slot", ")", ")">>
      \o OptionalClause(<<"label">>, LabelValues(gen, prop_uri))
      \o OptionalClause(<<"domain">>, ObjectNames(gen, prop_uri, RDFS_domain))
      \o OptionalClause(<<"range">>, ObjectNames(gen, prop_uri, RDFS_range))
      \o OptionalClause(<<"superslots">>, ObjectNames(gen, prop_uri, RDFS_subPropertyOf))
      \o OptionalClause(<<"inverse">>, ObjectNames(gen, prop_uri, OWL_inverseOf))
      \o <<")">>

\* whether generating the expression raises (str.join on a None value)
GenerationRaises(gen, type, uri) ==
    CASE type = "class" ->
            \E i \in DOMAIN SlotsOf(gen, uri) :
                /\ JoinRaises(SlotsOf(gen, uri)[i].values)
                /\ \E j \in DOMAIN SlotsOf(gen, uri)[i].values :
                      LET v == SlotsOf(gen, uri)[i].values[j]
                      IN v = PyNone \/ Str(v) # "owl#Class"
      [] type = "individual" ->
            \E i \in DOMAIN SlotsOf(gen, uri) : JoinRaises(SlotsOf(gen, uri)[i].values)
      [] type = "property" ->
            \E p \in {RDFS_domain, RDFS_range, RDFS_subPropertyOf, OWL_inverseOf} :
                JoinRaises(ObjectNames(gen, uri, p))
      [] OTHER -> TRUE

(***************************************************************************)
(* Entities (assertions)                                                   *)
(***************************************************************************)
NoClass == <<>>
ClassRef(u) == [type |-> "class", uri |-> u, cls |-> NoClass]
PropertyRef(u) == [type |-> "property", uri |-> u, cls |-> NoClass]
IndividualRef(u, c) == [type |-> "individual", uri |-> u, cls |-> c]

\* translate(assertion, km_generator); an unknown type raises ValueError
translate(gen, assertion) ==
    CASE assertion.type = "class" -> class_to_km(gen, assertion.uri)
      [] assertion.type = "property" -> property_to_km(gen, assertion.uri)
      [] assertion.type = "individual" -> individual_to_km(gen, assertion.uri)
      [] OTHER -> PyNone

TranslateRaises(gen, assertion) ==
    GenerationRaises(gen, assertion.type, assertion.uri)

\* the (s, o) pairs of graph.subject_objects(RDF.type) whose object is a
\* declared class other than owl:Class, in store order
TypedIndividuals(g) ==
    SelectSeq([i \in DOMAIN g |-> g[i]],
              LAMBDA t : /\ t.p = RDF_type /\ ~t.lit /\ t.o # OWL_Class
                         /\ HasTriple(g, t.o, RDF_type, OWL_Class))

\* preprocess(graph): the publish set, classes, then properties, then individuals
preprocess(g) ==
    [i \in DOMAIN subjects_of_type(g, OWL_Class) |->
        ClassRef(subjects_of_type(g, OWL_Class)[i])]
    \o [i \in DOMAIN subjects_of_type(g, OWL_ObjectProperty) |->
        PropertyRef(subjects_of_type(g, OWL_ObjectProperty)[i])]
    \o [i \in DOMAIN TypedIndividuals(g) |->
        IndividualRef(TypedIndividuals(g)[i].s, TypedIndividuals(g)[i].o)]
(***************************************************************************)
(* Reference extraction                                                    *)
(***************************************************************************)
BUILT_IN_FRAMES ==
    {"instance-of", "superclasses", "label", "Slot", "Class", "Thing", "has",
     "with", "a", "in", "where", "then", "else", "if", "forall", "oneof", "a-prototype"}

\* index of the first double quote of t at or after i, 0 when there is none
RECURSIVE NextQuote(_, _)
NextQuote(t, i) ==
    IF i > Len(t) THEN 0
    ELSE IF t[i] = Q THEN i
    ELSE NextQuote(t, i + 1)

\* re.sub(r'"[^"]*"', '', assertion): every span from a double quote to the
\* next double quote is removed, leftmost first
RECURSIVE RemoveQuoted(_)
RemoveQuoted(t) ==
    IF t = <<>> THEN <<>>
    ELSE IF Head(t) = Q
         THEN IF NextQuote(t, 2) = 0
              THEN t
              ELSE RemoveQuoted(SubSeq(t, NextQuote(t, 2) + 1, Len(t)))
         ELSE <<Head(t)>> \o RemoveQuoted(Tail(t))

\* re.findall(r'[-\w]+', text): the maximal runs of word characters
RECURSIVE FindSymbols(_, _)
FindSymbols(t, run) ==
    IF t = <<>> THEN (IF run = "" THEN <<>> ELSE <<run>>)
    ELSE IF IsWordAtom(Head(t))
         THEN FindSymbols(Tail(t), run \o Head(t))
         ELSE (IF run = "" THEN <<>> ELSE <<run>>) \o FindSymbols(Tail(t), "")

\* name_to_uri = {name: u for u, name in self.resource_names.items()}: of
\* the resources with one name, the last one inserted keeps the name
NameOwners(resource_names, name) ==
    {i \in DOMAIN resource_names.order :
        /\ resource_names.map[resource_names.order[i]] # PyNone
        /\ Str(resource_names.map[resource_names.order[i]]) = name}

Max(S) == CHOOSE x \in S : \A y \in S : y <= x

name_to_uri(resource_names, name) ==
    resource_names.order[Max(NameOwners(resource_names, name))]

\* a get_uri_type without its else branch: nothing is an individual
get_uri_type_no_individual(g, uri) ==
    IF HasTriple(g, uri, RDF_type, OWL_Class) THEN "class"
    ELSE IF HasTriple(g, uri, RDF_type, OWL_ObjectProperty) THEN "property"
    ELSE ""

\* KMSyntaxService.get_uri_type
get_uri_type(g, uri) ==
    IF HasTriple(g, uri, RDF_type, OWL_Class) THEN "class"
    ELSE IF HasTriple(g, uri, RDF_type, OWL_ObjectProperty) THEN "property"
    ELSE IF \E i \in DOMAIN objects(g, uri, RDF_type) :
               /\ ~objects(g, uri, RDF_type)[i].lit
               /\ HasTriple(g, objects(g, uri, RDF_type)[i].o, RDF_type, OWL_Class)
         THEN "individual"
         ELSE ""

\* the assertions one referenced URI stands for
RefsOfUri(g, ref_uri) ==
    CASE get_uri_type(g, ref_uri) = "class" -> <<ClassRef(ref_uri)>>
      [] get_uri_type(g, ref_uri) = "property" -> <<PropertyRef(ref_uri)>>
      [] get_uri_type(g, ref_uri) = "individual" ->
            [i \in DOMAIN SelectSeq(objects(g, ref_uri, RDF_type),
                                    LAMBDA t : ~t.lit /\ HasTriple(g, t.o, RDF_type, OWL_Class)) |->
                IndividualRef(ref_uri,
                    SelectSeq(objects(g, ref_uri, RDF_type),
                              LAMBDA t : ~t.lit /\ HasTriple(g, t.o, RDF_type, OWL_Class))[i].o)]
      [] OTHER -> <<>>

RECURSIVE FlattenRefs(_, _)
FlattenRefs(g, uris) ==
    IF uris = <<>> THEN <<>>
    ELSE RefsOfUri(g, Head(uris)) \o FlattenRefs(g, Tail(uris))

\* the symbols of an expression that are no built-in frame, each once
\* (a Python set: taken here in the order of first occurrence)
referenced_frames(expr) ==
    Dedup(SelectSeq(FindSymbols(RemoveQuoted(expr), ""),
                    LAMBDA sym : sym \notin BUILT_IN_FRAMES), {})

\* the URIs the referenced frames resolve to through the resource names
referenced_uris(gen, expr) ==
    [i \in DOMAIN SelectSeq(referenced_frames(expr),
                            LAMBDA f : NameOwners(gen.resource_names, f) # {}) |->
        name_to_uri(gen.resource_names,
                    SelectSeq(referenced_frames(expr),
                              LAMBDA f : NameOwners(gen.resource_names, f) # {})[i])]

\* KMSyntaxService.get_referenced_assertions
get_referenced_assertions(gen, expr) ==
    FlattenRefs(gen.graph, referenced_uris(gen, expr))
(***************************************************************************)
(* The ontologies the runs start from                                      *)
(***************************************************************************)
MaxClasses == 5
MaxWorkers == 2

EX(n) == <<"http://example.org", "/", n>>
K(i) == EX("K" \o ToString(i))

\* class K(i): its declaration, then a two-word rdfs:label when labelled,
\* then rdfs:subClassOf K(i-1) in a chain (and K(1) under K(n) in a cycle)
ClassTriples(i, n, shape, labelled) ==
    <<Triple(K(i), RDF_type, OWL_Class)>>
    \o (IF labelled
        THEN <<LitTriple(K(i), RDFS_label, <<"big", SP, "k" \o ToString(i)>>)>>
        ELSE <<>>)
    \o (IF shape \in {"chain", "cycle"} /\ i > 1
        THEN <<Triple(K(i), RDFS_subClassOf, K(i - 1))>>
        ELSE <<>>)
    \o (IF shape = "cycle" /\ i = 1 /\ n > 1
        THEN <<Triple(K(1), RDFS_subClassOf, K(n))>>
        ELSE <<>>)

RECURSIVE ClassesFrom(_, _, _, _)
ClassesFrom(i, n, shape, k) ==
    IF i > n THEN <<>>
    ELSE ClassTriples(i, n, shape, i <= k) \o ClassesFrom(i + 1, n, shape, k)

\* n classes of one shape, the first k of them labelled
Ontology(n, shape, k) == ClassesFrom(1, n, shape, k)

\* Class Animal, Class Dog under Animal with label "Dog", Individual Fido of
\* type Dog
Scenario ==
    <<Triple(EX("Animal"), RDF_type, OWL_Class),
      Triple(EX("Dog"), RDF_type, OWL_Class),
      Triple(EX("Dog"), RDFS_subClassOf, EX("Animal")),
      LitTriple(EX("Dog"), RDFS_label, <<"Dog">>),
      Triple(EX("Fido"), RDF_type, EX("Dog"))>>

\* two labelled classes, an individual of both and a property between them
Mixed ==
    Ontology(2, "none", 2)
    \o <<Triple(EX("f"), RDF_type, K(1)),
         Triple(EX("f"), RDF_type, K(2)),
         LitTriple(EX("f"), RDFS_label, <<"my", SP, "f">>),
         Triple(EX("owns"), RDF_type, OWL_ObjectProperty),
         LitTriple(EX("owns"), RDFS_label, <<"is", SP, "owner">>),
         Triple(EX("owns"), RDFS_domain, K(1)),
         Triple(EX("owns"), RDFS_range, K(2))>>

Shapes == {"none", "chain", "cycle"}

Ontologies ==
    {Ontology(n, shape, k) : <<n, shape, k>> \in
        {t \in (1..MaxClasses) \X Shapes \X (0..MaxClasses) : t[3] <= t[1]}}
    \cup {Scenario, Mixed}
(***************************************************************************)
(* The round-based scheduler: OWLGraphProcessor of main.py                 *)
(***************************************************************************)
VARIABLES
    km_generator,       \* self.km_generator: the graph and its name tables
    dry_run,            \* args.dry_run
    num_workers,        \* the size of the pool
    assertions,         \* self.assertions: the entities not yet dispatched
    dependencies,       \* self.dependencies: entity -> referenced entities
    successfully_sent,  \* the shared dict entity -> expression
    failed_assertions,  \* the dict entity -> reason (owl_to_km, processor)
    pc,                 \* where run() stands
    ready_assertions,   \* the list handed to pool.map in this round
    tasks,              \* the state of each item of that list
    round,              \* rounds begun so far
    km_calls,           \* entity -> calls of send_to_km made for it
    sent_round,         \* entity -> the round in which it was recorded
    total_expressions,  \* what is reported at the end, None before
    remaining_assertions, \* processor run(): the set still to process
    progress_made,        \* processor run(): its loop flag
    succeeded             \* the assertions whose worker reported success

vars == <<km_generator, dry_run, num_workers, assertions, dependencies,
          successfully_sent, failed_assertions, pc, ready_assertions, tasks,
          round, km_calls, sent_round, total_expressions,
          remaining_assertions, progress_made, succeeded>>

\* the locals of the processor's run(), which main.py's scheduler lacks
procVars == <<remaining_assertions, progress_made, succeeded>>

\* the round counter is followed up to this many rounds
MaxRounds == MaxClasses + 2

None == -1
EmptyDict == << >>

\* d[k] = v of a Python dict, kept as a function
SetItem(d, k, v) == [x \in DOMAIN d \cup {k} |-> IF x = k THEN v ELSE d[x]]

\* the generator built from the loaded graph.  main.py names the class
\* KMSyntaxGenerator of km_syntax.py, which has no get_referenced_assertions;
\* the scheduler is modelled with the generator that has the method the
\* scheduler calls, KMSyntaxService of service/KMService.py
Generator(g) == KMSyntaxService(g, extract_labels_and_ids(g))

\* OWLGraphProcessor.compute_dependencies (sequential branch): the
\* references of each assertion.  get_referenced_assertions works on the text
\* of an expression, so it is given the expression of the assertion
compute_dependencies(gen, assertion_list) ==
    [a \in Range(assertion_list) |->
        get_referenced_assertions(gen, translate(gen, a))]

\* a get_ready_assertions that does not look at the dependencies
get_ready_assertions_unordered(assertion_list, deps, sent) == assertion_list

\* a get_ready_assertions that leaves out the last ready assertion
get_ready_assertions_but_last(assertion_list, deps, sent) ==
    LET ready == SelectSeq(assertion_list,
                    LAMBDA a : \A i \in DOMAIN deps[a] : deps[a][i] \in DOMAIN sent)
    IN SubSeq(ready, 1, Len(ready) - 1)

\* OWLGraphProcessor.get_ready_assertions: the assertions all of whose
\* dependencies are keys of successfully_sent, in list order
get_ready_assertions(assertion_list, deps, sent) ==
    SelectSeq(assertion_list,
              LAMBDA a : \A i \in DOMAIN deps[a] : deps[a][i] \in DOMAIN sent)

\* a run() whose list comprehension keeps the dispatched assertions
remove_ready_keeping(assertion_list, ready) == assertion_list

\* run(): [a for a in self.assertions if a not in ready_assertions]
remove_ready(assertion_list, ready) ==
    SelectSeq(assertion_list, LAMBDA a : a \notin Range(ready))

\* Pool.map's default chunk size for n items on a pool of w workers
ChunkSize(n, w) ==
    IF n % (4 * w) = 0 THEN n \div (4 * w) ELSE (n \div (4 * w)) + 1

\* the chunk item i of the current map belongs to, and the items of a chunk
ChunkOf(i) == ((i - 1) \div ChunkSize(Len(ready_assertions), num_workers)) + 1
ChunkItems(c) == {i \in DOMAIN tasks : ChunkOf(i) = c}

\* a pool.map that does not wait for the calls still running
Terminal_or_running == {"True", "False", "raised", "skipped", "running"}

Terminal == {"True", "False", "raised", "skipped"}

\* a chunk is held by a worker from its first item's start to its last
\* item's end
ChunkActive(c) ==
    /\ \E i \in ChunkItems(c) : tasks[i] # "queued"
    /\ \E i \in ChunkItems(c) : tasks[i] \notin Terminal

\* item i is the next one a worker takes: the following item of the chunk it
\* holds, or the first item of the next chunk when a worker is idle
Takeable(i) ==
    /\ tasks[i] = "queued"
    /\ \A j \in 1..(i - 1) : tasks[j] # "queued"
    /\ \/ /\ i > 1
          /\ ChunkOf(i - 1) = ChunkOf(i)
          /\ tasks[i - 1] \in {"True", "False"}
       \/ /\ (i = 1 \/ ChunkOf(i - 1) # ChunkOf(i))
          /\ Cardinality({c \in 1..Len(tasks) : ChunkActive(c)}) < num_workers

\* item i raises in its worker: mapstar's list(map(...)) stops there, so the
\* items after it in the chunk are never run
RaiseIn(i) ==
    [j \in DOMAIN tasks |->
        IF j = i THEN "raised"
        ELSE IF j > i /\ ChunkOf(j) = ChunkOf(i) THEN "skipped"
        ELSE tasks[j]]

\* what rest_client.send_to_km hands back: a dict with a true "success", a
\* dict without one, or a str (the dry-run notice, the text of a request
\* error), on which result.get raises AttributeError
SendResults == IF dry_run THEN {"str"} ELSE {"success", "no_success", "str"}

InitMain ==
    /\ \E g \in Ontologies :
          /\ km_generator = Generator(g)
          /\ assertions = preprocess(g)
          /\ dependencies = compute_dependencies(Generator(g), preprocess(g))
          /\ km_calls = [a \in Range(preprocess(g)) |-> 0]
    /\ dry_run \in BOOLEAN
    /\ num_workers \in 1..MaxWorkers
    /\ successfully_sent = EmptyDict
    /\ failed_assertions = EmptyDict
    /\ pc = "run"
    /\ ready_assertions = << >>
    /\ tasks = << >>
    /\ round = 0
    /\ sent_round = EmptyDict
    /\ total_expressions = None
    /\ remaining_assertions = {}
    /\ progress_made = TRUE
    /\ succeeded = {}

\* run(), head of the loop: take the ready assertions; leave the loop when
\* there is none, else hand them to pool.map
run_get_ready ==
    /\ pc = "run"
    /\ round < MaxRounds
    /\ LET ready == get_ready_assertions(assertions, dependencies, successfully_sent)
       IN /\ ready_assertions' = ready
          /\ tasks' = [i \in DOMAIN ready |-> "queued"]
          /\ pc' = IF ready = << >> THEN "close" ELSE "map"
    /\ round' = IF assertions # << >> THEN round + 1 ELSE round
    /\ UNCHANGED <<km_generator, dry_run, num_workers, assertions, dependencies,
                   successfully_sent, failed_assertions, km_calls, sent_round,
                   total_expressions>>
    /\ UNCHANGED procVars

\* a worker enters process_assertion for item i: the expression is generated
\* and send_to_km is called with it
process_assertion_call(i) ==
    /\ pc = "map"
    /\ Takeable(i)
    /\ tasks' = [tasks EXCEPT ![i] = "running"]
    /\ km_calls' = [km_calls EXCEPT ![ready_assertions[i]] = @ + 1]
    /\ UNCHANGED <<km_generator, dry_run, num_workers, assertions, dependencies,
                   successfully_sent, failed_assertions, pc, ready_assertions,
                   round, sent_round, total_expressions>>
    /\ UNCHANGED procVars

\* send_to_km has answered for item i: on success the entity is recorded and
\* True returned, without success False is returned and nothing recorded, and
\* on a str the call raises, which ends the worker's chunk
process_assertion_return(i, result) ==
    /\ pc = "map"
    /\ tasks[i] = "running"
    /\ LET a == ready_assertions[i] IN
       CASE result = "success" ->
              /\ successfully_sent' =
                    SetItem(successfully_sent, a, translate(km_generator, a))
              /\ sent_round' = SetItem(sent_round, a, round)
              /\ tasks' = [tasks EXCEPT ![i] = "True"]
         [] result = "no_success" ->
              /\ tasks' = [tasks EXCEPT ![i] = "False"]
              /\ UNCHANGED <<successfully_sent, sent_round>>
         [] OTHER ->
              /\ tasks' = RaiseIn(i)
              /\ UNCHANGED <<successfully_sent, sent_round>>
    /\ UNCHANGED <<km_generator, dry_run, num_workers, assertions, dependencies,
                   failed_assertions, pc, ready_assertions, round, km_calls,
                   total_expressions>>
    /\ UNCHANGED procVars

\* pool.map returns once every chunk is done: it re-raises a worker's
\* exception out of run(), else the dispatched assertions leave self.assertions
run_map_return ==
    /\ pc = "map"
    /\ \A i \in DOMAIN tasks : tasks[i] \in Terminal
    /\ IF \E i \in DOMAIN tasks : tasks[i] = "raised"
       THEN pc' = "raised" /\ UNCHANGED assertions
       ELSE /\ pc' = "run"
            /\ assertions' = remove_ready(assertions, ready_assertions)
    /\ UNCHANGED <<km_generator, dry_run, num_workers, dependencies,
                   successfully_sent, failed_assertions, ready_assertions, tasks,
                   round, km_calls, sent_round, total_expressions>>
    /\ UNCHANGED procVars

\* after the loop: the pool is closed and joined, and main() reports
\* len(processor.successfully_sent)
run_close ==
    /\ pc = "close"
    /\ pc' = "done"
    /\ total_expressions' = Cardinality(DOMAIN successfully_sent)
    /\ UNCHANGED <<km_generator, dry_run, num_workers, assertions, dependencies,
                   successfully_sent, failed_assertions, ready_assertions, tasks,
                   round, km_calls, sent_round>>
    /\ UNCHANGED procVars

NextMain ==
    \/ run_get_ready
    \/ \E i \in DOMAIN tasks : process_assertion_call(i)
    \/ \E i \in DOMAIN tasks : \E result \in SendResults :
          process_assertion_return(i, result)
    \/ run_map_return
    \/ run_close

Spec == InitMain /\ [][NextMain]_vars

\* workers and the parent process keep running, and the KM server answers or
\* the request times out
FairSpec == Spec /\ WF_vars(NextMain)

\* the publish set the run started from: the keys of self.dependencies
remaining0 == DOMAIN dependencies
Sent == DOMAIN successfully_sent
Dispatched(i) == i \in DOMAIN tasks /\ tasks[i] # "queued"
Terminated == pc \in {"done", "raised"}

EverReady(a) == a \notin Range(assertions) \/ a \in Range(ready_assertions)

C2_ExactlyOncePerReady ==
    /\ \A a \in remaining0 : km_calls[a] <= 1
    /\ Terminated => \A a \in remaining0 : EverReady(a) => km_calls[a] = 1

\* the part that holds: no assertion is sent twice
C2_AtMostOnce == \A a \in remaining0 : km_calls[a] <= 1

\* a run over two rounds of which the first sent an assertion the server
\* refused, and the assertion was not sent again
C2_Witness ==
    /\ pc = "done"
    /\ \E a \in remaining0 : a \notin Range(assertions) /\ a \notin Sent /\ km_calls[a] = 1

(***************************************************************************)
(* C3: the loop of run() ends, whatever send_to_km answers, after at most  *)
(* as many rounds as the publish set has assertions; every round that does *)
(* not end the loop takes at least one assertion off the list.              *)
(***************************************************************************)
C3_TerminatesWithinBound ==
    /\ <>[]Terminated
    /\ [](round <= Cardinality(remaining0))
    /\ [][pc = "map" /\ pc' = "run" => Len(assertions') < Len(assertions)]_vars

\* a run of two assertions that took two rounds although no call succeeded
C3_Witness ==
    /\ pc = "done"
    /\ Cardinality(remaining0) = 2
    /\ round = 2
    /\ Sent = {}
    /\ \E a \in remaining0 : km_calls[a] = 1
(***************************************************************************)
(* C4: when run() has returned, every assertion of the publish set is      *)
(* recorded, as sent or as failed with a reason.                            *)
(***************************************************************************)
Failed == DOMAIN failed_assertions

C4_FullAccounting ==
    pc = "done" => \A a \in remaining0 : a \in Sent \/ a \in Failed

(***************************************************************************)
(* C5: when the loop stops on an empty ready list with assertions left,    *)
(* each of them is recorded as failed: "dependency_failure" if one of its  *)
(* dependencies is not sent, "unknown_failure" otherwise.                   *)
(***************************************************************************)
HasUnsentDependency(a) ==
    \E j \in DOMAIN dependencies[a] : dependencies[a][j] \notin Sent

C5_StallRecorded ==
    pc \in {"close", "done"} =>
        \A a \in Range(assertions) :
            /\ a \in Failed
            /\ failed_assertions[a] =
                  IF HasUnsentDependency(a) THEN "dependency_failure"
                  ELSE "unknown_failure"

(***************************************************************************)
(* C6: each dispatched assertion has its outcome recorded: sent on         *)
(* success, "processing_failure" when the server refuses it, "exception"   *)
(* when the call raises; no failure ends the run or keeps another          *)
(* assertion of the round from being processed.                             *)
(***************************************************************************)
C6_OutcomePerEntity ==
    /\ pc # "raised"
    /\ \A i \in DOMAIN tasks :
          LET a == ready_assertions[i] IN
          /\ tasks[i] = "True" => a \in Sent
          /\ tasks[i] = "False" =>
                a \in Failed /\ failed_assertions[a] = "processing_failure"
          /\ tasks[i] = "raised" =>
                a \in Failed /\ failed_assertions[a] = "exception"
          /\ tasks[i] # "skipped"

(***************************************************************************)
(* C9: a chain e1..eK, each expression naming only its predecessor, with   *)
(* every call of send_to_km succeeding, takes exactly K rounds, round i    *)
(* sending e(i), and ends with K sent and none failed.                      *)
(***************************************************************************)
Chains == {Ontology(n, "chain", 0) : n \in 1..MaxClasses} \cup {Scenario}
EveryCallSucceeded == \A a \in remaining0 : km_calls[a] > 0 => a \in Sent

C9_ChainTakesKRounds ==
    pc = "done" /\ km_generator.graph \in Chains /\ EveryCallSucceeded =>
        LET chain == preprocess(km_generator.graph) IN
        /\ round = Len(chain)
        /\ \A i \in DOMAIN chain : chain[i] \in Sent /\ sent_round[chain[i]] = i
        /\ Failed = {}

(***************************************************************************)
(* C10: two assertions whose expressions name each other: run() ends       *)
(* after one round, send_to_km is called for neither, and both are         *)
(* recorded as failed.                                                      *)
(***************************************************************************)
TwoCycle ==
    \E a, b \in remaining0 :
        /\ a # b
        /\ remaining0 = {a, b}
        /\ b \in Range(dependencies[a])
        /\ a \in Range(dependencies[b])

C10_TwoCycleFails ==
    pc = "done" /\ TwoCycle =>
        /\ round = 1
        /\ \A a \in remaining0 : km_calls[a] = 0
        /\ \A a \in remaining0 : a \in Failed
(***************************************************************************)
(* The retry loop: run() of processor/owl/OWLGraphProcessor.py             *)
(***************************************************************************)
\* what the worker, ontology_service.preprocess(assertion, dry_run=...),
\* hands back for an assertion: a true value, a false one, or an exception
WorkerResults == {"True", "False", "raise"}

\* the assertions of a set in the order pool.map and zip both iterate it
InSetOrder(assertion_list, S) == SelectSeq(assertion_list, LAMBDA a : a \in S)

\* the pool is None when the caller asked for a single process
InitProc ==
    /\ \E g \in Ontologies :
          /\ km_generator = Generator(g)
          /\ assertions = preprocess(g)
          /\ km_calls = [a \in Range(preprocess(g)) |-> 0]
    /\ dry_run \in BOOLEAN
    /\ num_workers \in 0..MaxWorkers
    /\ dependencies = EmptyDict
    /\ successfully_sent = << >>
    /\ failed_assertions = EmptyDict
    /\ pc = "proc_run"
    /\ ready_assertions = << >>
    /\ tasks = << >>
    /\ round = 0
    /\ sent_round = EmptyDict
    /\ total_expressions = None
    /\ remaining_assertions = {}
    /\ progress_made = TRUE
    /\ succeeded = {}

\* run(assertion_list), up to the loop: the locals are set, and without a
\* pool 0 is returned at once
proc_run_enter ==
    /\ pc = "proc_run"
    /\ remaining_assertions' = Range(assertions)
    /\ failed_assertions' = EmptyDict
    /\ progress_made' = TRUE
    /\ IF num_workers = 0
       THEN pc' = "done" /\ total_expressions' = 0
       ELSE pc' = "proc_loop" /\ UNCHANGED total_expressions
    /\ UNCHANGED <<km_generator, dry_run, num_workers, assertions, dependencies,
                   successfully_sent, ready_assertions, tasks, round, km_calls,
                   sent_round, succeeded>>

\* the loop test: another round maps the worker over all that remains, else
\* run() returns len(self.successfully_sent)
proc_loop_test ==
    /\ pc = "proc_loop"
    /\ IF remaining_assertions # {} /\ progress_made
       THEN /\ round < MaxRounds
            /\ round' = round + 1
            /\ progress_made' = FALSE
            /\ ready_assertions' = InSetOrder(assertions, remaining_assertions)
            /\ tasks' = [i \in 1..Cardinality(remaining_assertions) |-> "queued"]
            /\ pc' = "proc_map"
            /\ UNCHANGED total_expressions
       ELSE /\ pc' = "done"
            /\ total_expressions' = Len(successfully_sent)
            /\ UNCHANGED <<round, progress_made, ready_assertions, tasks>>
    /\ UNCHANGED <<km_generator, dry_run, num_workers, assertions, dependencies,
                   successfully_sent, failed_assertions, km_calls, sent_round,
                   remaining_assertions, succeeded>>

\* a pool worker starts on item i
proc_worker_call(i) ==
    /\ pc = "proc_map"
    /\ Takeable(i)
    /\ tasks' = [tasks EXCEPT ![i] = "running"]
    /\ km_calls' = [km_calls EXCEPT ![ready_assertions[i]] = @ + 1]
    /\ UNCHANGED <<km_generator, dry_run, num_workers, assertions, dependencies,
                   successfully_sent, failed_assertions, pc, ready_assertions,
                   round, sent_round, total_expressions>>
    /\ UNCHANGED procVars

\* the worker is done with item i
proc_worker_return(i, result) ==
    /\ pc = "proc_map"
    /\ tasks[i] = "running"
    /\ tasks' = IF result = "raise" THEN RaiseIn(i)
                ELSE [tasks EXCEPT ![i] = result]
    /\ succeeded' = IF result = "True"
                    THEN succeeded \cup {ready_assertions[i]}
                    ELSE succeeded
    /\ UNCHANGED <<km_generator, dry_run, num_workers, assertions, dependencies,
                   successfully_sent, failed_assertions, pc, ready_assertions,
                   round, km_calls, sent_round, total_expressions,
                   remaining_assertions, progress_made>>

\* pool.map returns and the results are gone through: a false result keeps
\* the assertion and notes "unknown_failure" once; a true result counts as
\* progress only for an assertion found in self.successfully_sent
proc_map_return ==
    /\ pc = "proc_map"
    /\ \A i \in DOMAIN tasks : tasks[i] \in Terminal
    /\ IF \E i \in DOMAIN tasks : tasks[i] = "raised"
       THEN /\ pc' = "raised"
            /\ UNCHANGED <<remaining_assertions, failed_assertions, progress_made>>
       ELSE LET new_remaining ==
                    {ready_assertions[i] : i \in {j \in DOMAIN tasks : tasks[j] = "False"}}
            IN /\ remaining_assertions' = new_remaining
               /\ failed_assertions' =
                     [a \in DOMAIN failed_assertions \cup new_remaining |->
                         IF a \in DOMAIN failed_assertions THEN failed_assertions[a]
                         ELSE "unknown_failure"]
               /\ progress_made' =
                     \E i \in DOMAIN tasks :
                         /\ tasks[i] = "True"
                         /\ ready_assertions[i] \in Range(successfully_sent)
               /\ pc' = "proc_loop"
    /\ UNCHANGED <<km_generator, dry_run, num_workers, assertions, dependencies,
                   successfully_sent, ready_assertions, tasks, round, km_calls,
                   sent_round, total_expressions, succeeded>>

NextProc ==
    \/ proc_run_enter
    \/ proc_loop_test
    \/ \E i \in DOMAIN tasks : proc_worker_call(i)
    \/ \E i \in DOMAIN tasks : \E result \in WorkerResults :
          proc_worker_return(i, result)
    \/ proc_map_return

SpecProc == InitProc /\ [][NextProc]_vars

(***************************************************************************)
(* C8: the total run() returns is the number of assertions whose publish   *)
(* succeeded during the run.                                                *)
(***************************************************************************)
C8_TotalIsSentCount ==
    pc = "done" => total_expressions = Cardinality(succeeded)
(***************************************************************************)
(* The recursive sender: process_assertion of owl_to_km.py, called once    *)
(* for each translated assertion                                            *)
(***************************************************************************)
\* translate_assertions(assertion_list, km_generator)
translate_assertions(assertion_list, gen) ==
    [i \in DOMAIN assertion_list |-> translate(gen, assertion_list[i])]

\* what KMService.send_to_km hands back: always success in a dry run, else a
\* dict with success True or False; an error that is no RequestException
\* leaves the call as an exception
KMServiceResults ==
    IF dry_run THEN {"success"} ELSE {"success", "no_success", "raise"}

Running == {i \in DOMAIN tasks : tasks[i] = "running"}

InitRec ==
    /\ \E g \in Ontologies :
          /\ km_generator = Generator(g)
          /\ assertions = preprocess(g)
          /\ ready_assertions = translate_assertions(preprocess(g), Generator(g))
          /\ tasks = [i \in DOMAIN preprocess(g) |-> "queued"]
          /\ km_calls = [e \in Range(translate_assertions(preprocess(g), Generator(g))) |-> 0]
    /\ dry_run \in BOOLEAN
    /\ num_workers \in 1..MaxWorkers
    /\ dependencies = EmptyDict
    /\ successfully_sent = EmptyDict
    /\ failed_assertions = EmptyDict
    /\ pc = "rec"
    /\ round = 0
    /\ sent_round = EmptyDict
    /\ total_expressions = None
    /\ remaining_assertions = {}
    /\ progress_made = TRUE
    /\ succeeded = {}

\* process_assertion(assertion, ...) up to the call of send_to_km.  The
\* registries are dicts only when more than one process was asked for; left
\* None, the membership test raises.  An assertion already sent returns True;
\* the references are tuples, never keys of successfully_sent, so the first
\* one leads to the recursive call process_assertion(ref, dry_run), a
\* TypeError for its two missing arguments
rec_process_assertion_call(i) ==
    /\ pc = "rec"
    /\ tasks[i] = "queued"
    /\ Cardinality(Running) < num_workers
    /\ LET assertion == ready_assertions[i] IN
       IF num_workers = 1
       THEN tasks' = [tasks EXCEPT ![i] = "raised"] /\ UNCHANGED km_calls
       ELSE IF assertion \in DOMAIN successfully_sent
       THEN tasks' = [tasks EXCEPT ![i] = "True"] /\ UNCHANGED km_calls
       ELSE IF get_referenced_assertions(km_generator, assertion) # << >>
       THEN tasks' = [tasks EXCEPT ![i] = "raised"] /\ UNCHANGED km_calls
       ELSE /\ tasks' = [tasks EXCEPT ![i] = "running"]
            /\ km_calls' = [km_calls EXCEPT ![assertion] = @ + 1]
    /\ UNCHANGED <<km_generator, dry_run, num_workers, assertions, dependencies,
                   successfully_sent, failed_assertions, pc, ready_assertions,
                   round, sent_round, total_expressions>>
    /\ UNCHANGED procVars

\* the try block of process_assertion once send_to_km is back
rec_process_assertion_return(i, result) ==
    /\ pc = "rec"
    /\ tasks[i] = "running"
    /\ LET assertion == ready_assertions[i] IN
       CASE result = "success" ->
              /\ successfully_sent' = SetItem(successfully_sent, assertion, assertion)
              /\ tasks' = [tasks EXCEPT ![i] = "True"]
              /\ UNCHANGED failed_assertions
         [] result = "no_success" ->
              /\ failed_assertions' =
                    SetItem(failed_assertions, assertion, "processing_failure")
              /\ tasks' = [tasks EXCEPT ![i] = "False"]
              /\ UNCHANGED successfully_sent
         [] OTHER ->
              /\ failed_assertions' = SetItem(failed_assertions, assertion, "exception")
              /\ tasks' = [tasks EXCEPT ![i] = "False"]
              /\ UNCHANGED successfully_sent
    /\ UNCHANGED <<km_generator, dry_run, num_workers, assertions, dependencies,
                   pc, ready_assertions, round, km_calls, sent_round,
                   total_expressions>>
    /\ UNCHANGED procVars

\* every translated assertion has been processed
rec_done ==
    /\ pc = "rec"
    /\ \A i \in DOMAIN tasks : tasks[i] \in Terminal
    /\ pc' = "done"
    /\ UNCHANGED <<km_generator, dry_run, num_workers, assertions, dependencies,
                   successfully_sent, failed_assertions, ready_assertions, tasks,
                   round, km_calls, sent_round, total_expressions>>
    /\ UNCHANGED procVars

NextRec ==
    \/ \E i \in DOMAIN tasks : rec_process_assertion_call(i)
    \/ \E i \in DOMAIN tasks : \E result \in KMServiceResults :
          rec_process_assertion_return(i, result)
    \/ rec_done

SpecRec == InitRec /\ [][NextRec]_vars

(***************************************************************************)
(* C7: the registry only grows and its entries are final: an assertion     *)
(* recorded as sent stays so with the same value, one recorded as failed   *)
(* stays failed and is never recorded as sent, and none is recorded as     *)
(* both at any time.                                                        *)
(***************************************************************************)
C7_RegistryFinal ==
    /\ [](Sent \cap Failed = {})
    /\ [][/\ \A e \in Sent :
                /\ e \in DOMAIN successfully_sent'
                /\ successfully_sent'[e] = successfully_sent[e]
          /\ \A e \in Failed :
                /\ e \in DOMAIN failed_assertions'
                /\ e \notin DOMAIN successfully_sent']_vars

(***************************************************************************)
(* Translation of one ontology: the generator is constructed from the      *)
(* loaded graph, then every entity of the publish set is translated and    *)
(* the references of its expression are extracted (translate and           *)
(* get_referenced_assertions, in the order of the publish set).            *)
(***************************************************************************)
\* the triples added to the fixed part of an input graph, at most
MaxTriples == 3
\* the predicates that share one base label, at most
MaxPreds == 3

EX2(n) == <<"http://other.org", "/", n>>
HostN(i, n) == <<"http://h" \o ToString(i) \o ".org", "/", n>>

\* the sequences without repetition of at most n elements of S
InjSeqs(S, n) ==
    UNION {{s \in [1..k -> S] : \A i, j \in 1..k : s[i] = s[j] => i = j} : k \in 0..n}

\* a declared class A and a resource R described by up to MaxTriples triples:
\* R as a class, as an individual of A (by either type predicate) and of a
\* second resource with the URI tail "A", under A and under that second
\* resource, labelled, with an external identifier, related to A by a
\* predicate of its own, with a comment that quotes the name of A, and above A
EntityGraphs ==
    LET EntityPool == {
     Triple(EX("R"), RDF_type, OWL_Class),
     Triple(EX("R"), RDF_type, EX("A")),
     Triple(EX("R"), RDF_type, EX2("A")),
     Triple(EX("R"), CYC_QuotedIsa, EX("A")),
     Triple(EX("R"), RDFS_subClassOf, EX("A")),
     Triple(EX("R"), RDFS_subClassOf, EX2("A")),
     LitTriple(EX("R"), RDFS_label, <<"Big", SP, "R">>),
     Triple(EX("R"), OWL_sameAs, EX2("X")),
     Triple(EX("R"), EX("rel"), EX("A")),
     LitTriple(EX("R"), RDFS_comment, <<"see", SP, Q, "A", Q>>),
     Triple(EX("A"), RDFS_subClassOf, EX("R")),
     Triple(EX2("A"), RDF_type, OWL_Class)}
    IN {<<Triple(EX("A"), RDF_type, OWL_Class)>> \o s :
           s \in InjSeqs(EntityPool, MaxTriples)}

\* an object property R with up to MaxTriples of its relations
PropertyGraphs ==
    LET PropertyPool == {
     LitTriple(EX("R"), RDFS_label, <<"is", SP, Q, "R", Q>>),
     Triple(EX("R"), RDFS_domain, EX("A")),
     Triple(EX("R"), RDFS_domain, EX2("B")),
     Triple(EX("R"), RDFS_range, EX("A")),
     Triple(EX("R"), RDFS_subPropertyOf, EX("S")),
     Triple(EX("R"), OWL_inverseOf, EX("T"))}
    IN {<<Triple(EX("A"), RDF_type, OWL_Class),
          Triple(EX("R"), RDF_type, OWL_ObjectProperty)>> \o s :
           s \in InjSeqs(PropertyPool, MaxTriples)}

\* n predicates with the URI tail base on n hosts, each used by a subject of
\* its own; with again, the first of them is used a second time
RECURSIVE SharedBase(_, _)
SharedBase(n, base) ==
    IF n = 0 THEN <<>>
    ELSE Append(SharedBase(n - 1, base),
                Triple(EX("s" \o ToString(n)), HostN(n, base), EX("A")))

PredicateGraphs ==
    {SharedBase(n, base) \o
        (IF again THEN <<Triple(EX("s0"), HostN(1, base), EX("A"))>> ELSE <<>>) :
        <<n, base, again>> \in (1..MaxPreds) \X {"rel", "comment"} \X BOOLEAN}

GenOntologies == Ontologies \cup EntityGraphs \cup PropertyGraphs \cup PredicateGraphs

\* the loaded graph, the generator's tables not yet built
InitGen ==
    /\ \E g \in GenOntologies :
          km_generator = [graph |-> g, object_map |-> EmptyDict,
                          resource_names |-> [order |-> <<>>, map |-> EmptyDict],
                          predicate_names |-> EmptyDict]
    /\ pc = "gen_new"
    /\ assertions = <<>>
    /\ ready_assertions = <<>>
    /\ tasks = <<>>
    /\ dependencies = EmptyDict
    /\ dry_run = TRUE
    /\ num_workers = 1
    /\ successfully_sent = EmptyDict
    /\ failed_assertions = EmptyDict
    /\ round = 0
    /\ km_calls = EmptyDict
    /\ sent_round = EmptyDict
    /\ total_expressions = None
    /\ remaining_assertions = {}
    /\ progress_made = TRUE
    /\ succeeded = {}

genFrame == <<dry_run, num_workers, successfully_sent, failed_assertions, round,
              km_calls, sent_round, total_expressions>>

\* extract_labels_and_ids, KMSyntaxService.__init__ and preprocess
gen_construct ==
    /\ pc = "gen_new"
    /\ km_generator' = Generator(km_generator.graph)
    /\ assertions' = preprocess(km_generator.graph)
    /\ ready_assertions' = [i \in DOMAIN preprocess(km_generator.graph) |-> PyNone]
    /\ tasks' = [i \in DOMAIN preprocess(km_generator.graph) |-> "queued"]
    /\ pc' = "gen_translate"
    /\ UNCHANGED dependencies
    /\ UNCHANGED genFrame
    /\ UNCHANGED procVars

\* translate(assertion, km_generator) for the next entity of the publish set
gen_translate(i) ==
    /\ pc = "gen_translate"
    /\ tasks[i] = "queued"
    /\ \A j \in 1..(i - 1) : tasks[j] # "queued"
    /\ IF TranslateRaises(km_generator, assertions[i])
       THEN /\ tasks' = [tasks EXCEPT ![i] = "raised"]
            /\ UNCHANGED ready_assertions
       ELSE /\ tasks' = [tasks EXCEPT ![i] = "translated"]
            /\ ready_assertions' =
                  [ready_assertions EXCEPT ![i] = translate(km_generator, assertions[i])]
    /\ UNCHANGED <<km_generator, assertions, dependencies, pc>>
    /\ UNCHANGED genFrame
    /\ UNCHANGED procVars

\* get_referenced_assertions on the expression of a translated entity
gen_references(i) ==
    /\ pc = "gen_translate"
    /\ tasks[i] = "translated"
    /\ tasks' = [tasks EXCEPT ![i] = "extracted"]
    /\ dependencies' =
          SetItem(dependencies, assertions[i],
                  get_referenced_assertions(km_generator, ready_assertions[i]))
    /\ UNCHANGED <<km_generator, assertions, ready_assertions, pc>>
    /\ UNCHANGED genFrame
    /\ UNCHANGED procVars

NextGen ==
    \/ gen_construct
    \/ \E i \in DOMAIN tasks : gen_translate(i)
    \/ \E i \in DOMAIN tasks : gen_references(i)

SpecGen == InitGen /\ [][NextGen]_vars

\* the generator's tables are built
Built == pc = "gen_translate"
\* the positions of the publish set for which an expression was generated
Translated == {i \in DOMAIN tasks : tasks[i] \in {"translated", "extracted"}}

\* the texts of the expressions generated so far, by position
ExpressionTexts == [i \in DOMAIN ready_assertions |-> Str(Render(ready_assertions[i]))]

(***************************************************************************)
(* C11: for the ontology of class Animal, class Dog under Animal with      *)
(* label "Dog" and individual Fido of type Dog, the expressions generated  *)
(* are exactly (Animal has), (Dog has (superclasses (Animal)) (label       *)
(* ("Dog"))) and (Fido has (instance-of (Dog))).                           *)
(***************************************************************************)
C11_ScenarioExpressions ==
    (Built /\ km_generator.graph = Scenario /\ Translated = DOMAIN tasks) =>
        ExpressionTexts =
            <<"(Animal has)",
              "(Dog has (superclasses (Animal)) (label (\"Dog\")))",
              "(Fido has (instance-of (Dog)))">>

(***************************************************************************)
(* C12: for a class whose only relation to another entity is that it is a  *)
(* subclass of a declared class, the references extracted from its         *)
(* expression are exactly that superclass: the superclass is among them    *)
(* and nothing else is.                                                    *)
(***************************************************************************)
C12_ReferencesAreSuperclass ==
    \A a \in DOMAIN dependencies :
        \A x \in Range(subjects(km_generator.graph)) :
            ( /\ a.type = "class"
              /\ x # a.uri
              /\ HasTriple(km_generator.graph, x, RDF_type, OWL_Class)
              /\ Range(predicate_objects(km_generator.graph, a.uri)) =
                    {Triple(a.uri, RDF_type, OWL_Class),
                     Triple(a.uri, RDFS_subClassOf, x)} )
            => Range(dependencies[a]) = {ClassRef(x)}

\* the predicates of the graph, each once, in first-seen order
SeenPredicates == Dedup(predicates(km_generator.graph), {})

\* the graph's predicates are all outside the override table, none has an
\* entry of the label map, and all have the base name of the first
ShareOneBase ==
    /\ Built
    /\ SeenPredicates # <<>>
    /\ \A i \in DOMAIN SeenPredicates :
          /\ SeenPredicates[i] \notin DOMAIN STANDARD_PREDICATES
          /\ SeenPredicates[i] \notin TYPE_PREDICATES
          /\ SeenPredicates[i] \notin DOMAIN km_generator.object_map
          /\ rdf_to_krl_name(SeenPredicates[i]) = rdf_to_krl_name(SeenPredicates[1])

\* the first-seen predicate has the base name, the k-th after it the base
\* name with _k
NamedInSeenOrder ==
    LET base == Str(rdf_to_krl_name(SeenPredicates[1]))
        names == km_generator.predicate_names
    IN /\ Str(Render(names[SeenPredicates[1]])) = base
       /\ \A k \in 1..(Len(SeenPredicates) - 1) :
             Str(Render(names[SeenPredicates[k + 1]])) = base \o "_" \o ToString(k)

(***************************************************************************)
(* C13 as stated: N predicates outside the override table that share one   *)
(* base label, the graph having no other predicate, get N distinct names:  *)
(* the first seen the base label, the k-th seen after it the base label    *)
(* with _k, k = 1..N-1.                                                     *)
(***************************************************************************)
C13_SharedBaseSuffixes == ShareOneBase => NamedInSeenOrder

(***************************************************************************)
(* C13 amended: the same, for a base label that is not itself one of the   *)
(* names of the override table (those names are taken before the first     *)
(* predicate is seen, so that with such a base label the first predicate   *)
(* already gets _1).                                                        *)
(***************************************************************************)
C13_SharedBaseSuffixesFreeBase ==
    (ShareOneBase /\ Str(rdf_to_krl_name(SeenPredicates[1])) \notin StandardNames)
        => NamedInSeenOrder

C13_Witness ==
    /\ ShareOneBase
    /\ Len(SeenPredicates) = MaxPreds
    /\ Str(rdf_to_krl_name(SeenPredicates[1])) = "rel"
    /\ Str(km_generator.predicate_names[SeenPredicates[MaxPreds]])
          = "rel_" \o ToString(MaxPreds - 1)

(***************************************************************************)
(* C14: after build_resource_names the resource-name table is a bijection  *)
(* for every ontology: no two distinct resources have the same name, and   *)
(* the reverse lookup that reference extraction builds returns, for the    *)
(* name of every resource of the table, that resource.                     *)
(***************************************************************************)
C14_ResourceNamesBijective ==
    Built =>
        LET names == km_generator.resource_names IN
        /\ \A r1, r2 \in DOMAIN names.map :
              names.map[r1] = names.map[r2] => r1 = r2
        /\ \A r \in DOMAIN names.map :
              names.map[r] # PyNone =>
                 name_to_uri(names, Str(names.map[r])) = r

(***************************************************************************)
(* C15: name resolution gives every resource a name that is a non-empty    *)
(* string, never a missing one: the label of the label map when the map    *)
(* holds a non-empty label for the resource, otherwise the annotation      *)
(* label (the first with an upper-case initial, else the first), otherwise *)
(* the last segment of its URI; and no translation raises an error.        *)
(***************************************************************************)
C15_NamesAreStrings ==
    Built =>
        LET g == km_generator.graph
            object_map == km_generator.object_map
            names == km_generator.resource_names.map
        IN /\ \A r \in DOMAIN names :
                 /\ names[r] # PyNone
                 /\ names[r] # <<>>
                 /\ names[r] =
                       IF r \in DOMAIN object_map /\ Truthy(object_map[r].label)
                       THEN object_map[r].label
                       ELSE IF AnnotLabels(g, r) # <<>>
                       THEN FirstOr(SelectSeq(AnnotLabels(g, r), StartsUpper),
                                    AnnotLabels(g, r)[1])
                       ELSE rdf_to_krl_name(r)
           /\ \A i \in DOMAIN tasks : tasks[i] # "raised"

\* a resource without a name makes the translation of the class under it raise
C15_RaisedWitness ==
    /\ Built
    /\ \E i \in DOMAIN tasks :
          /\ tasks[i] = "raised"
          /\ assertions[i] = ClassRef(EX("A"))
          /\ km_generator.resource_names.map[EX("R")] = PyNone

\* the owl:Class object of a type statement
IsTypeMarker(t) == ~t.lit /\ t.o = OWL_Class

(***************************************************************************)
(* C16: the expression of a class has exactly one slot clause per distinct *)
(* predicate of the class, and the clause lists every object of the        *)
(* predicate as its own value, in store order, without deduplication (the  *)
(* type marker is not a value, and a predicate left without a value has no *)
(* clause).  Stated for the classes whose predicates have slot names of    *)
(* their own and whose type marker, if any, is the only object of its      *)
(* predicate.                                                               *)
(***************************************************************************)
C16_OneClausePerPredicate ==
    \A i \in Translated :
        LET triples == predicate_objects(km_generator.graph, assertions[i].uri)
            slot(t) == get_slot_name(km_generator.predicate_names, t.p)
            preds == Dedup([j \in DOMAIN triples |-> triples[j].p], {})
            values(p) ==
                LET of_pred == SelectSeq(triples, LAMBDA t : t.p = p /\ ~IsTypeMarker(t))
                IN [j \in DOMAIN of_pred |-> ValueOf(km_generator, of_pred[j])]
            RECURSIVE OneClausePerPredicate(_)
            OneClausePerPredicate(ps) ==
                IF ps = <<>> THEN <<>>
                ELSE (IF values(Head(ps)) = <<>> THEN <<>>
                      ELSE Clause(get_slot_name(km_generator.predicate_names, Head(ps)),
                                  values(Head(ps))))
                     \o OneClausePerPredicate(Tail(ps))
        IN ( /\ assertions[i].type = "class"
             /\ \A j, k \in DOMAIN triples :
                   /\ slot(triples[j]) = slot(triples[k]) => triples[j].p = triples[k].p
                   /\ (IsTypeMarker(triples[j]) /\ triples[j].p = triples[k].p) => j = k )
           => ready_assertions[i] =
                 FrameHead(get_resource_name(km_generator.resource_names,
                                             assertions[i].uri))
                   \o OneClausePerPredicate(preds) \o <<")">>

(***************************************************************************)
(* C17: the value that stands for the owl:Class type marker, owl#Class,    *)
(* never appears in the expression generated for a class, whatever the     *)
(* triples of the class are, also when its slot holds other values.        *)
(***************************************************************************)
C17_TypeMarkerSuppressed ==
    \A i \in Translated :
        assertions[i].type = "class" =>
            LET expr == ready_assertions[i]
                marker == rdf_to_krl_name(OWL_Class)
            IN \A j \in DOMAIN expr :
                  j + Len(marker) - 1 <= Len(expr) =>
                      SubSeq(expr, j, j + Len(marker) - 1) # marker

\* the triples of the entity at position i of the publish set, in store order
TriplesOf(i) == predicate_objects(km_generator.graph, assertions[i].uri)

\* triple j of entity i is the first of its slot with its value
FirstOfValue(i, j) ==
    \A k \in 1..(j - 1) :
        \/ get_slot_name(km_generator.predicate_names, TriplesOf(i)[k].p)
              # get_slot_name(km_generator.predicate_names, TriplesOf(i)[j].p)
        \/ ValueOf(km_generator, TriplesOf(i)[k]) # ValueOf(km_generator, TriplesOf(i)[j])

(***************************************************************************)
(* C18: the expression of an individual has one slot clause per distinct   *)
(* slot name, in the order in which the slots are first met, and within a  *)
(* clause every resolved name or literal of the slot appears exactly once, *)
(* at the position of its first occurrence in store order.                 *)
(***************************************************************************)
C18_IndividualValuesOnce ==
    \A i \in Translated :
        assertions[i].type = "individual" =>
            LET n == Len(TriplesOf(i))
                slot(j) == get_slot_name(km_generator.predicate_names, TriplesOf(i)[j].p)
                first_of_slot(j) == \A k \in 1..(j - 1) : slot(k) # slot(j)
                RECURSIVE ValuesFrom(_, _)
                ValuesFrom(j, s) ==
                    IF j > n THEN <<>>
                    ELSE (IF slot(j) = s /\ FirstOfValue(i, j)
                          THEN <<ValueOf(km_generator, TriplesOf(i)[j])>> ELSE <<>>)
                         \o ValuesFrom(j + 1, s)
                RECURSIVE ClausesFrom(_)
                ClausesFrom(j) ==
                    IF j > n THEN <<>>
                    ELSE (IF first_of_slot(j)
                          THEN Clause(slot(j), ValuesFrom(1, slot(j))) ELSE <<>>)
                         \o ClausesFrom(j + 1)
            IN ready_assertions[i] =
                  FrameHead(get_resource_name(km_generator.resource_names,
                                              assertions[i].uri))
                    \o ClausesFrom(1) \o <<")">>

\* an individual is translated whose slot has a value, another value and the
\* first value again
C18_Witness ==
    \E i \in Translated :
        /\ assertions[i].type = "individual"
        /\ Len(TriplesOf(i)) = 3
        /\ ~FirstOfValue(i, 3)
        /\ FirstOfValue(i, 2)
        /\ get_slot_name(km_generator.predicate_names, TriplesOf(i)[2].p)
              = get_slot_name(km_generator.predicate_names, TriplesOf(i)[1].p)
        /\ ValueOf(km_generator, TriplesOf(i)[3]) = ValueOf(km_generator, TriplesOf(i)[1])

(***************************************************************************)
(* C19: the expression of a property starts, after the frame head, with    *)
(* (instance-of (Slot)) and goes on with the clauses label, domain, range, *)
(* superslots and inverse in that order, each present exactly when the     *)
(* property has a value for the relation; the values of label are quoted   *)
(* literals, the others resolved resource names, in store order.           *)
(***************************************************************************)
C19_PropertyClauses ==
    \A i \in Translated :
        assertions[i].type = "property" =>
            LET relations == <<RDFS_label, RDFS_domain, RDFS_range,
                               RDFS_subPropertyOf, OWL_inverseOf>>
                slots == <<"label", "domain", "range", "superslots", "inverse">>
                values(p) ==
                    LET of_p == SelectSeq(TriplesOf(i), LAMBDA t : t.p = p)
                    IN [j \in DOMAIN of_p |-> ValueOf(km_generator, of_p[j])]
                RECURSIVE ClausesFrom(_)
                ClausesFrom(k) ==
                    IF k > Len(relations) THEN <<>>
                    ELSE (IF values(relations[k]) = <<>> THEN <<>>
                          ELSE Clause(<<slots[k]>>, values(relations[k])))
                         \o ClausesFrom(k + 1)
            IN ready_assertions[i] =
                  FrameHead(get_resource_name(km_generator.resource_names,
                                              assertions[i].uri))
                    \o <<SP, "(", "instance-of", SP, "(", "Slot", ")", ")">>
                    \o ClausesFrom(1) \o <<")">>

\* a property is translated that has an inverse, stored first, two domains
\* and no label, range or superslot
C19_Witness ==
    \E i \in Translated :
        /\ assertions[i].type = "property"
        /\ Len(TriplesOf(i)) = 4
        /\ TriplesOf(i)[2].p = OWL_inverseOf
        /\ TriplesOf(i)[3].p = RDFS_domain
        /\ TriplesOf(i)[4].p = RDFS_domain
        /\ Str(ready_assertions[i]) =
              "(R has (instance-of (Slot)) (domain ("
                 \o Str(ValueOf(km_generator, TriplesOf(i)[3])) \o " "
                 \o Str(ValueOf(km_generator, TriplesOf(i)[4])) \o ")) (inverse (T)))"

(***************************************************************************)
(* C20: with the dry-run flag set, send_to_km makes no request and answers *)
(* success for every expression, so that every entity the scheduler has    *)
(* dispatched in a dry run is recorded as sent once its call has returned. *)
(***************************************************************************)
C20_DryRunRecordsSent ==
    dry_run =>
        \A a \in DOMAIN km_calls :
            ( /\ km_calls[a] > 0
              /\ \A i \in DOMAIN tasks : ready_assertions[i] = a => tasks[i] # "running" )
            => a \in Sent

(***************************************************************************)
(* The same assertion processed twice: process_assertion of owl_to_km.py   *)
(* is called two times with the expression of one entity, by one process   *)
(* after the other or by two processes of the pool at once.                *)
(***************************************************************************)
InitTwice ==
    /\ \E g \in Ontologies : \E i \in DOMAIN preprocess(g) :
          /\ km_generator = Generator(g)
          /\ assertions = <<preprocess(g)[i], preprocess(g)[i]>>
          /\ ready_assertions = <<translate(Generator(g), preprocess(g)[i]),
                                  translate(Generator(g), preprocess(g)[i])>>
          /\ km_calls = (translate(Generator(g), preprocess(g)[i]) :> 0)
    /\ tasks = <<"queued", "queued">>
    /\ dry_run \in BOOLEAN
    /\ num_workers \in 1..MaxWorkers
    /\ dependencies = EmptyDict
    /\ successfully_sent = EmptyDict
    /\ failed_assertions = EmptyDict
    /\ pc = "rec"
    /\ round = 0
    /\ sent_round = EmptyDict
    /\ total_expressions = None
    /\ remaining_assertions = {}
    /\ progress_made = TRUE
    /\ succeeded = {}

SpecTwice == InitTwice /\ [][NextRec]_vars

(***************************************************************************)
(* C21: publishing is idempotent: once the same entity has been processed  *)
(* twice in a dry run, the registry holds exactly one Sent entry for it    *)
(* (and none as failed).                                                    *)
(***************************************************************************)
C21_TwiceLeavesOneSent ==
    (dry_run /\ pc = "done") =>
        /\ Sent = {ready_assertions[1]}
        /\ Failed = {}

(***************************************************************************)
(* Translation of a publish set that holds an entity with a tag other than *)
(* class, property and individual, by the function translate of            *)
(* owl_to_km.py (gen_translate) and by the method translate_assertion of   *)
(* the generator.                                                           *)
(***************************************************************************)
InitTag ==
    /\ \E g \in Ontologies : \E u \in Range(subjects(g)) :
       \E tag \in {"datatype", "Class", ""} :
          /\ km_generator = Generator(g)
          /\ assertions = Append(preprocess(g),
                                 [type |-> tag, uri |-> u, cls |-> NoClass])
          /\ ready_assertions = [i \in 1..(Len(preprocess(g)) + 1) |-> PyNone]
          /\ tasks = [i \in 1..(Len(preprocess(g)) + 1) |-> "queued"]
    /\ pc = "gen_translate"
    /\ dependencies = EmptyDict
    /\ dry_run = TRUE
    /\ num_workers = 1
    /\ successfully_sent = EmptyDict
    /\ failed_assertions = EmptyDict
    /\ round = 0
    /\ km_calls = EmptyDict
    /\ sent_round = EmptyDict
    /\ total_expressions = None
    /\ remaining_assertions = {}
    /\ progress_made = TRUE
    /\ succeeded = {}

\* KMSyntaxService.translate_assertion: expr = None, replaced by the
\* expression in one of the three branches, and returned
translate_assertion(i) ==
    /\ pc = "gen_translate"
    /\ tasks[i] = "queued"
    /\ \A j \in 1..(i - 1) : tasks[j] # "queued"
    /\ IF assertions[i].type \notin {"class", "property", "individual"}
       THEN /\ tasks' = [tasks EXCEPT ![i] = "returned None"]
            /\ ready_assertions' = [ready_assertions EXCEPT ![i] = PyNone]
       ELSE IF GenerationRaises(km_generator, assertions[i].type, assertions[i].uri)
       THEN /\ tasks' = [tasks EXCEPT ![i] = "raised"]
            /\ UNCHANGED ready_assertions
       ELSE /\ tasks' = [tasks EXCEPT ![i] = "translated"]
            /\ ready_assertions' =
                  [ready_assertions EXCEPT ![i] = translate(km_generator, assertions[i])]
    /\ UNCHANGED <<km_generator, assertions, dependencies, pc>>
    /\ UNCHANGED genFrame
    /\ UNCHANGED procVars

NextTag ==
    \/ \E i \in DOMAIN tasks : gen_translate(i)
    \/ \E i \in DOMAIN tasks : translate_assertion(i)
    \/ \E i \in DOMAIN tasks : gen_references(i)

SpecTag == InitTag /\ [][NextTag]_vars

(***************************************************************************)
(* C22: translating an entity whose tag is none of class, property and     *)
(* individual fails fast: the translation raises, no expression is         *)
(* returned and nothing is sent for the entity.                            *)
(***************************************************************************)
C22_UnknownTagRaises ==
    \A i \in DOMAIN tasks :
        (assertions[i].type \notin {"class", "property", "individual"}
           /\ tasks[i] # "queued")
        => /\ tasks[i] = "raised"
           /\ ready_assertions[i] = PyNone
           /\ km_calls = EmptyDict

\* the function translate of owl_to_km.py has raised on the unknown tag
C22_RaisedWitness ==
    \E i \in DOMAIN tasks :
        /\ assertions[i].type \notin {"class", "property", "individual"}
        /\ tasks[i] = "raised"

(***************************************************************************)
(* C23: the text inside the quoted literals of an expression yields no     *)
(* token, also when the literal holds quotes that the generator escapes:   *)
(* the references extracted from the expression of an entity are those     *)
(* extracted from its expression without its literal values.               *)
(***************************************************************************)
C23_LiteralsYieldNoReference ==
    \A i \in Translated :
        LET without_literals ==
                [km_generator EXCEPT !.graph = SelectSeq(@, LAMBDA t : ~t.lit)]
        IN Range(get_referenced_assertions(km_generator, ready_assertions[i]))
             = Range(get_referenced_assertions(
                        km_generator, translate(without_literals, assertions[i])))

(***************************************************************************)
(* C24: every token of an expression that is not a built-in keyword is     *)
(* looked up in the reverse of both name tables: a token equal to a name   *)
(* of the resource-name table resolves to the resource of that name, a     *)
(* token equal to a name of the predicate-name table resolves to the       *)
(* predicate of that name, and only tokens in neither table are dropped.   *)
(***************************************************************************)
C24_BothTablesLookedUp ==
    \A i \in Translated :
        LET tokens == Range(referenced_frames(ready_assertions[i]))
            resolved == Range(referenced_uris(km_generator, ready_assertions[i]))
            resource_names == km_generator.resource_names.map
            predicate_names == km_generator.predicate_names
        IN /\ \A r \in DOMAIN resource_names :
                 (resource_names[r] # PyNone /\ Str(resource_names[r]) \in tokens)
                    => \E r2 \in resolved : resource_names[r2] = resource_names[r]
           /\ \A p \in DOMAIN predicate_names :
                 (predicate_names[p] # PyNone /\ Str(predicate_names[p]) \in tokens)
                    => \E p2 \in resolved :
                          /\ p2 \in DOMAIN predicate_names
                          /\ predicate_names[p2] = predicate_names[p]
           /\ \A u \in resolved :
                 \/ u \in DOMAIN resource_names /\ Str(Render(resource_names[u])) \in tokens
                 \/ u \in DOMAIN predicate_names /\ Str(Render(predicate_names[u])) \in tokens

(***************************************************************************)
(* C25: for each resource that the extractor resolves, the references      *)
(* hold exactly one Class(resource) if it is declared an owl:Class, else   *)
(* exactly one Property(resource) if it is declared an                     *)
(* owl:ObjectProperty, otherwise exactly one Individual(resource, T) for   *)
(* every declared type T of the resource that is itself a class, and       *)
(* nothing when it has no such type; they hold nothing else.               *)
(***************************************************************************)
C25_ReferencesByDeclaredType ==
    \A i \in DOMAIN assertions :
        assertions[i] \in DOMAIN dependencies =>
            LET g == km_generator.graph
                refs == dependencies[assertions[i]]
                resolved == Range(referenced_uris(km_generator, ready_assertions[i]))
                count(r) == Cardinality({k \in DOMAIN refs : refs[k] = r})
                class_types(u) ==
                    {T \in Range(subjects(g)) :
                        HasTriple(g, u, RDF_type, T) /\ HasTriple(g, T, RDF_type, OWL_Class)}
                expected(u) ==
                    IF HasTriple(g, u, RDF_type, OWL_Class) THEN {ClassRef(u)}
                    ELSE IF HasTriple(g, u, RDF_type, OWL_ObjectProperty)
                    THEN {PropertyRef(u)}
                    ELSE {IndividualRef(u, T) : T \in class_types(u)}
            IN /\ \A u \in resolved : \A r \in expected(u) : count(r) = 1
               /\ Range(refs) = UNION {expected(u) : u \in resolved}

\* the references of an expression hold an individual with its two classes
C25_Witness ==
    \E a \in DOMAIN dependencies :
        /\ Cardinality({k \in DOMAIN dependencies[a] :
                           dependencies[a][k].type = "individual"}) = 2
        /\ \E k \in DOMAIN dependencies[a] : dependencies[a][k].type = "class"

(***************************************************************************)
(* C26: there is a full barrier between rounds: the ready list of the next *)
(* round is computed only when every call dispatched in the current round  *)
(* has returned and what it wrote to the registry is there, so that no     *)
(* entity of a round is dispatched while a call of the round before it is  *)
(* still running.                                                           *)
(***************************************************************************)
C26_RoundBarrier ==
    [][ (pc = "run" \/ pc' = "run" \/ ready_assertions' # ready_assertions)
          => \A i \in DOMAIN tasks :
                /\ tasks[i] \notin {"queued", "running"}
                /\ tasks[i] = "True" => ready_assertions[i] \in Sent ]_vars

\* the loop has computed the ready list a second time after a round in which
\* two workers have sent two entities
C26_Witness ==
    /\ round = 2
    /\ num_workers = 2
    /\ pc = "close"
    /\ Cardinality(Sent) >= 2
    /\ \A a \in Sent : sent_round[a] = 1

(***************************************************************************)
(* The sender of lazy_loader.py: every worker sends the prerequisites of   *)
(* its assertion that are not yet in the shared dict, then the assertion.  *)
(* The assertions are the expressions logged by a translation of the same  *)
(* ontology; the dict is keyed by the subject of an expression.  The name  *)
(* table of its generator is built by the code modelled as                 *)
(* build_resource_names, and of a prerequisite only the subject is read,   *)
(* the name at the head of the frame.                                      *)
(***************************************************************************)
\* utils.extract_subject: the text between the first "(" and the first "has"
extract_subject(assertion) ==
    LET has_index == {i \in DOMAIN assertion : assertion[i] = "has"}
        open_paren_index == {i \in DOMAIN assertion : assertion[i] = "("}
        Min(S) == CHOOSE x \in S : \A y \in S : x <= y
        Strip(t) == SelectSeq(t, LAMBDA a : a # SP)
    IN IF has_index = {} THEN PyNone
       ELSE IF open_paren_index = {} \/ Min(open_paren_index) > Min(has_index)
       THEN PyNone
       ELSE LET inner == SubSeq(assertion, Min(open_paren_index) + 1, Min(has_index) - 1)
            IN IF \A i \in DOMAIN inner : inner[i] = SP THEN <<>>
               ELSE SubSeq(inner,
                           Min({i \in DOMAIN inner : inner[i] # SP}),
                           CHOOSE j \in DOMAIN inner :
                              /\ inner[j] # SP
                              /\ \A k \in DOMAIN inner : k > j => inner[k] = SP)

\* KMSyntaxGenerator.get_prerequisite_assertions: the frames of the symbols
\* other than the first one (the set of symbols is taken in the order of
\* first occurrence)
get_prerequisite_assertions(gen, assertion) ==
    LET symbols == FindSymbols(RemoveQuoted(assertion), "")
        frames == IF symbols = <<>> THEN <<>>
                  ELSE Dedup(SelectSeq(symbols,
                                LAMBDA sym : sym # symbols[1] /\ sym \notin BUILT_IN_FRAMES), {})
        known == SelectSeq(frames, LAMBDA f : NameOwners(gen.resource_names, f) # {})
        PrerequisiteOf(uri) ==
            IF HasTriple(gen.graph, uri, RDF_type, OWL_Class)
            THEN <<class_to_km(gen, uri)>>
            ELSE IF HasTriple(gen.graph, uri, RDF_type, OWL_ObjectProperty)
            THEN <<property_to_km(gen, uri)>>
            ELSE IF objects(gen.graph, uri, RDF_type) # <<>>
            THEN <<individual_to_km(gen, objects(gen.graph, uri, RDF_type)[1].o)>>
            ELSE <<>>
        RECURSIVE Collect(_)
        Collect(fs) ==
            IF fs = <<>> THEN <<>>
            ELSE PrerequisiteOf(name_to_uri(gen.resource_names, Head(fs)))
                   \o Collect(Tail(fs))
    IN Collect(known)

\* send_assertion(assertion, successfully_sent): the request is commented
\* out and response is None, so every call writes the entry of the subject.
\* st holds the dict and the number of writes each key has received
send_assertion(st, assertion) ==
    IF Truthy(extract_subject(assertion))
    THEN [sent  |-> SetItem(st.sent, extract_subject(assertion), assertion),
          calls |-> [st.calls EXCEPT ![extract_subject(assertion)] = @ + 1]]
    ELSE st

\* send_assertions_with_dependencies up to pool.starmap: ready_assertions
\* holds all_assertions, the keys of km_calls are all_subjects
InitLazy ==
    /\ \E g \in Ontologies :
          /\ km_generator = Generator(g)
          /\ assertions = preprocess(g)
          /\ ready_assertions = translate_assertions(preprocess(g), Generator(g))
          /\ tasks = [i \in DOMAIN preprocess(g) |-> "queued"]
          /\ km_calls =
                [s \in {extract_subject(a) :
                          a \in Range(translate_assertions(preprocess(g), Generator(g)))}
                       \ {PyNone, <<>>} |-> 0]
    /\ dry_run = FALSE
    /\ num_workers \in 1..MaxWorkers
    /\ dependencies = EmptyDict
    /\ successfully_sent = EmptyDict
    /\ failed_assertions = EmptyDict
    /\ pc = "lazy"
    /\ round = 0
    /\ sent_round = EmptyDict
    /\ total_expressions = None
    /\ remaining_assertions = {}
    /\ progress_made = TRUE
    /\ succeeded = {}

\* process_assertion(index, assertion, ...) up to "Send the main assertion":
\* the loop over the prerequisites, with the sends of the sub-prerequisites
lazy_process_assertion(i) ==
    /\ pc = "lazy"
    /\ tasks[i] = "queued"
    /\ Cardinality(Running) < num_workers
    /\ LET all_subjects == DOMAIN km_calls
           AssertionOf(subject) ==
               ready_assertions[CHOOSE k \in DOMAIN ready_assertions :
                   /\ extract_subject(ready_assertions[k]) = subject
                   /\ \A j \in 1..(k - 1) : extract_subject(ready_assertions[j]) # subject]
           Wanted(st, subject) ==
               /\ Truthy(subject)
               /\ subject \notin DOMAIN st.sent
               /\ subject \in all_subjects
           RECURSIVE SendSubs(_, _)
           SendSubs(subs, st) ==
               IF subs = <<>> THEN st
               ELSE SendSubs(Tail(subs),
                       IF Wanted(st, extract_subject(Head(subs)))
                       THEN send_assertion(st, AssertionOf(extract_subject(Head(subs))))
                       ELSE st)
           RECURSIVE SendPrereqs(_, _)
           SendPrereqs(prerequisites, st) ==
               IF prerequisites = <<>> THEN st
               ELSE SendPrereqs(Tail(prerequisites),
                       IF Wanted(st, extract_subject(Head(prerequisites)))
                       THEN LET prereq_assertion ==
                                   AssertionOf(extract_subject(Head(prerequisites)))
                            IN send_assertion(
                                  SendSubs(get_prerequisite_assertions(km_generator,
                                                                       prereq_assertion), st),
                                  prereq_assertion)
                       ELSE st)
           after == SendPrereqs(get_prerequisite_assertions(km_generator, ready_assertions[i]),
                                [sent |-> successfully_sent, calls |-> km_calls])
       IN /\ successfully_sent' = after.sent
          /\ km_calls' = after.calls
    /\ tasks' = [tasks EXCEPT ![i] = "running"]
    /\ UNCHANGED <<km_generator, dry_run, num_workers, assertions, dependencies,
                   failed_assertions, pc, ready_assertions, round, sent_round,
                   total_expressions>>
    /\ UNCHANGED procVars

\* process_assertion from "Send the main assertion" on
lazy_send_main(i) ==
    /\ pc = "lazy"
    /\ tasks[i] = "running"
    /\ LET after == send_assertion([sent |-> successfully_sent, calls |-> km_calls],
                                   ready_assertions[i])
       IN /\ successfully_sent' = after.sent
          /\ km_calls' = after.calls
    /\ tasks' = [tasks EXCEPT ![i] = "True"]
    /\ UNCHANGED <<km_generator, dry_run, num_workers, assertions, dependencies,
                   failed_assertions, pc, ready_assertions, round, sent_round,
                   total_expressions>>
    /\ UNCHANGED procVars

NextLazy ==
    \/ \E i \in DOMAIN tasks : lazy_process_assertion(i)
    \/ \E i \in DOMAIN tasks : lazy_send_main(i)

SpecLazy == InitLazy /\ [][NextLazy]_vars

C28_PredicateNamesCollisionFree ==
    Built =>
        \A p1, p2 \in Range(predicates(km_generator.graph)) :
            km_generator.predicate_names[p1] = km_generator.predicate_names[p2]
                => p1 = p2

C30_CycleReturnsFalse ==
    (/\ pc = "done"
     /\ km_generator.graph \in {Ontology(n, "cycle", 0) : n \in 2..MaxClasses})
        => /\ \A i \in DOMAIN tasks : tasks[i] = "False"
           /\ Range(ready_assertions) \subseteq Failed
====
